---- MODULE Spec2Model ----
(***************************************************************************)
(* Model of the `pipe` crate (src/src/lib.rs): the free function `pipe`,   *)
(* the blanket implementation of `Pipe::pipe` for every `FnOnce(A) -> B`,  *)
(* and the `pipe!` macro.  A client program issues statements that build   *)
(* pipelines and call them; the steps it passes are closures over i64 that *)
(* append to an external log when they are entered and when they return.   *)
(***************************************************************************)
EXTENDS Integers, Sequences, FiniteSets, TLC

\* Bounds of the client program.
MaxCalls == 4      \* calls of pipe() / .pipe(), macro expansions included
MaxRuns == 2       \* calls of a finished pipeline
MaxLive == 2       \* pipelines the client holds unconsumed at one time
MaxToks == 5       \* tokens of a pipe! block, where any token list is tried

VARIABLES pipes, log, runs, last, calls

vars == <<pipes, log, runs, last, calls>>

----------------------------------------------------------------------------
\* The steps the client passes: |x: i64| x / 2 and |x: i64| 12 / x.

StepIds == {"half", "div"}

\* The inputs it calls pipelines with.  12 / 0 panics, so from 0 a pipeline
\* fails at its first div, from 1 at a div after a halving, and from 2 at a div
\* after two halvings.
Inputs == {0, 1, 2}

Ok(v) == [ok |-> TRUE, val |-> v, panic |-> "none"]

Fail(msg) == [ok |-> FALSE, val |-> 0, panic |-> msg]

\* 12 / 0 panics; nothing else in the steps does.
Panics(s, v) == s = "div" /\ v = 0

PanicMsg(s) == IF s = "div" THEN "attempt to divide by zero" ELSE "none"

Apply(s, v) == IF s = "half" THEN v \div 2 ELSE 12 \div v

\* A step closure as a callable value.
Step(s) == [kind |-> "step", id |-> s]

\* Calling a step closure with the value in m.res: it logs its entry, computes,
\* and logs its return; a panic leaves the entry alone in the log.
RunStep(s, m) ==
  IF Panics(s, m.res.val)
    THEN [res |-> Fail(PanicMsg(s)), log |-> Append(m.log, <<"enter", s>>)]
    ELSE [res |-> Ok(Apply(s, m.res.val)),
          log |-> m.log \o << <<"enter", s>>, <<"exit", s>> >>]

----------------------------------------------------------------------------
\* The library.

\* The closure `|a| f(self(a))` that Pipe::pipe returns, capturing self and f.
Closure(self, f) == [kind |-> "closure", self |-> self, f |-> f]

\* Variant of pipe: the step is wrapped in a closure that applies it twice.
pipe_Wrap(f, lg) == [ret |-> Closure(f, f), log |-> lg]

\* pipe(f): returns f itself; evaluating it calls nothing.
pipe(f, lg) == [ret |-> f, log |-> lg]

RECURSIVE Call(_, _)

\* Variant of Pipe::pipe: self is run once, on a default input, while the
\* pipeline is being built.
Pipe_pipe_Eager(self, f, lg) ==
  [ret |-> Closure(self, f), log |-> Call(self, [res |-> Ok(0), log |-> lg]).log]

\* Variant of Pipe::pipe: the closure captures its two callables exchanged.
Pipe_pipe_Flip(self, f, lg) == [ret |-> Closure(f, self), log |-> lg]

\* self.pipe(f): builds the closure; evaluating it calls nothing.
Pipe_pipe(self, f, lg) == [ret |-> Closure(self, f), log |-> lg]

\* Variant of the closure body: `|a| self(f(a))`.
ClosureBody_Swapped(c, m) ==
  LET r == Call(c.f, m)
  IN  IF r.res.ok THEN Call(c.self, r) ELSE r

\* Variant of the closure body: `|a| f(a)`, self is never called.
ClosureBody_SkipSelf(c, m) == Call(c.f, m)

\* Variant of the closure body: a panic in self is caught and f is called
\* with a default value.
ClosureBody_Catch(c, m) ==
  LET r == Call(c.self, m)
  IN  IF r.res.ok THEN Call(c.f, r) ELSE Call(c.f, [res |-> Ok(0), log |-> r.log])

\* The body of `|a| f(self(a))`: self is called first, f on its result; a panic
\* in self unwinds through the body, which has no handler, so f is not called.
ClosureBody(c, m) ==
  LET r == Call(c.self, m)
  IN  IF r.res.ok THEN Call(c.f, r) ELSE r

\* Calling a callable value: a step closure, or a closure made by Pipe::pipe.
Call(c, m) ==
  IF c.kind = "step" THEN RunStep(c.id, m) ELSE ClosureBody(c, m)

----------------------------------------------------------------------------
\* The pipe! macro: `$ident: $ty; $first:expr => $( $rest:expr )=>*`.
\* Its input after the binding is a list of tokens: expressions and `=>`.

Arrow == "=>"

IsExpr(t) == t \in StepIds

\* The matcher: one expression, one `=>`, then zero or more expressions
\* separated by `=>`.
MacroMatch(toks) ==
  /\ Len(toks) >= 2
  /\ IsExpr(toks[1])
  /\ toks[2] = Arrow
  /\ LET rest == SubSeq(toks, 3, Len(toks))
     IN  \/ rest = <<>>
         \/ /\ Len(rest) % 2 = 1
            /\ \A i \in 1..Len(rest) :
                 IF i % 2 = 1 THEN IsExpr(rest[i]) ELSE rest[i] = Arrow

\* The expressions bound to $rest, in the order written.
MacroRest(toks) == [i \in 1..((Len(toks) - 1) \div 2) |-> toks[2 * i + 1]]

\* Variant of the transcriber's repetition: `$( .. )*`, which may repeat zero
\* times.
MacroRepeats_Star(toks) == TRUE

\* The transcriber's repetition is `$( .. )+`: expansion fails ("this must
\* repeat at least once") when $rest matched no expression.
MacroRepeats(toks) == Len(MacroRest(toks)) >= 1

RECURSIVE Transcribe(_, _)

\* The repetition `$( .pipe(|$ident| $rest) )+` applied to the value so far.
Transcribe(acc, rest) ==
  IF rest = <<>>
    THEN acc
    ELSE Transcribe(Pipe_pipe(acc.ret, Step(Head(rest)), acc.log), Tail(rest))

\* Variant of the transcriber: the pipeline starts from the first of $rest and
\* $first is piped in last.
MacroExpand_FirstLast(toks, lg) ==
  LET es == Append(MacroRest(toks), toks[1])
  IN  Transcribe(pipe(Step(Head(es)), lg), Tail(es))

\* The transcriber: $crate::pipe(|$ident: $ty| $first) followed by the
\* repetition.
MacroExpand(toks, lg) == Transcribe(pipe(Step(toks[1]), lg), MacroRest(toks))

----------------------------------------------------------------------------
\* Ownership.  Every pipeline the library returns has the opaque type
\* `impl FnOnce(A) -> B`, which is neither Copy nor Clone.

\* Variant: the receiver is borrowed and stays usable.
MoveSelf_Borrow(ps, p) == ps

\* `fn pipe<F2>(self, f: F2)` takes self by value: the receiver is moved.
MoveSelf(ps, p) == [ps EXCEPT ![p].live = FALSE]

\* It takes f by value too: a pipeline passed as the step is moved.
MoveArg(ps, q) == [ps EXCEPT ![q].live = FALSE]

\* Variant: the call borrows the pipeline, as a call of an `impl Fn` would.
CallOnce_Borrow(ps, p) == ps

\* Calling an `impl FnOnce` value consumes it.
CallOnce(ps, p) == [ps EXCEPT ![p].live = FALSE]

----------------------------------------------------------------------------
\* The client program.

NewPipe(fn, decl, form, parent) ==
  [fn |-> fn, decl |-> decl, form |-> form, parent |-> parent, live |-> TRUE]

\* The outcome of the most recent statement when it was a pipe! block: the
\* tokens written, whether a rule matched, and the pipeline made (0 if none).
MacroStmt(toks, status, p) == [toks |-> toks, status |-> status, p |-> p]

NoMacro == MacroStmt(<<>>, "none", 0)

\* n expressions separated by `=>`.
Interleave(es) ==
  [i \in 1..(2 * Len(es) - 1) |-> IF i % 2 = 1 THEN es[(i + 1) \div 2] ELSE Arrow]

\* The token lists the client writes in a pipe! block: up to `budget`
\* expressions separated by `=>`.
MacroInputs(budget) ==
  {Interleave(es) : es \in UNION {[1..n -> StepIds] : n \in 1..budget}}

\* Every list of up to MaxToks tokens, well formed or not.
TokenLists == UNION {[1..n -> StepIds \cup {Arrow}] : n \in 1..MaxToks}

Exprs(toks) == SelectSeq(toks, IsExpr)

NLive == Cardinality({p \in DOMAIN pipes : pipes[p].live})

Init ==
  /\ pipes = <<>>
  /\ log = <<>>
  /\ runs = <<>>
  /\ last = NoMacro
  /\ calls = 0

\* let p = pipe(|x: i64| s);
Start(s) ==
  /\ calls < MaxCalls
  /\ NLive < MaxLive
  /\ LET r == pipe(Step(s), log)
     IN  /\ pipes' = Append(pipes, NewPipe(r.ret, <<s>>, "chain", 0))
         /\ log' = r.log
  /\ calls' = calls + 1
  /\ last' = NoMacro
  /\ UNCHANGED runs

\* let q = p.pipe(|x| s);
Extend(p, s) ==
  /\ calls < MaxCalls
  /\ p \in DOMAIN pipes
  /\ pipes[p].live
  /\ LET r == Pipe_pipe(pipes[p].fn, Step(s), log)
     IN  /\ pipes' = Append(MoveSelf(pipes, p),
                            NewPipe(r.ret, Append(pipes[p].decl, s), pipes[p].form, p))
         /\ log' = r.log
  /\ calls' = calls + 1
  /\ last' = NoMacro
  /\ UNCHANGED runs

\* let r = p.pipe(q);  with q a pipeline: it is moved in as the step.
ExtendPipe(p, q) ==
  /\ calls < MaxCalls
  /\ p \in DOMAIN pipes
  /\ q \in DOMAIN pipes
  /\ p # q
  /\ pipes[p].live
  /\ pipes[q].live
  /\ LET r == Pipe_pipe(pipes[p].fn, pipes[q].fn, log)
     IN  /\ pipes' = Append(MoveArg(MoveSelf(pipes, p), q),
                            NewPipe(r.ret, pipes[p].decl \o pipes[q].decl, "nested", p))
         /\ log' = r.log
  /\ calls' = calls + 1
  /\ last' = NoMacro
  /\ UNCHANGED runs

\* let p = pipe! { this: i64; toks };  A block that the rule does not match,
\* or whose expansion fails, is rejected by the compiler and the statement
\* has no effect.
Macro(toks) ==
  /\ Len(Exprs(toks)) <= MaxCalls - calls
  /\ NLive < MaxLive
  /\ IF MacroMatch(toks) /\ MacroRepeats(toks)
       THEN LET r == MacroExpand(toks, log)
            IN  /\ pipes' = Append(pipes, NewPipe(r.ret, Exprs(toks), "macro", 0))
                /\ log' = r.log
                /\ calls' = calls + Len(Exprs(toks))
                /\ last' = MacroStmt(toks, "ok", Len(pipes) + 1)
       ELSE /\ last' = MacroStmt(toks, "rejected", 0)
            /\ UNCHANGED <<pipes, log, calls>>
  /\ UNCHANGED runs

\* let y = p(x);
Invoke(p, x) ==
  /\ Len(runs) < MaxRuns
  /\ p \in DOMAIN pipes
  /\ pipes[p].live
  /\ LET r == Call(pipes[p].fn, [res |-> Ok(x), log |-> log])
     IN  /\ log' = r.log
         /\ runs' = Append(runs, [pipe |-> p, input |-> x, res |-> r.res,
                                  trace |-> SubSeq(r.log, Len(log) + 1, Len(r.log))])
  /\ pipes' = CallOnce(pipes, p)
  /\ last' = NoMacro
  /\ UNCHANGED calls

Next ==
  \/ \E s \in StepIds : Start(s)
  \/ \E p \in DOMAIN pipes, s \in StepIds : Extend(p, s)
  \/ \E p, q \in DOMAIN pipes : ExtendPipe(p, q)
  \/ \E toks \in MacroInputs(MaxCalls - calls) : Macro(toks)
  \/ \E p \in DOMAIN pipes, x \in Inputs : Invoke(p, x)

Spec == Init /\ [][Next]_vars

\* The macro on its own: a program whose first statement is a pipe! block over
\* any token list, followed by calls of the pipeline it made.
MacroFirst(toks) == pipes = <<>> /\ Macro(toks)

NextMacro ==
  \/ \E toks \in TokenLists : MacroFirst(toks)
  \/ \E p \in DOMAIN pipes, x \in Inputs : Invoke(p, x)

SpecMacro == Init /\ [][NextMacro]_vars

----------------------------------------------------------------------------
\* Reference notions the properties are stated with.

Front(d) == SubSeq(d, 1, Len(d) - 1)

Last(d) == d[Len(d)]

RECURSIVE Nest(_, _)

\* The steps d[1], ..., d[n] called by hand, nested: d[n](...d[2](d[1](x))).
Nest(d, x) ==
  IF d = <<>>
    THEN Ok(x)
    ELSE LET inner == Nest(Front(d), x)
         IN  IF ~inner.ok THEN inner
             ELSE IF Panics(Last(d), inner.val) THEN Fail(PanicMsg(Last(d)))
             ELSE Ok(Apply(Last(d), inner.val))

\* The log left by the steps of d when each is entered and returns in turn.
Events(d) ==
  [i \in 1..(2 * Len(d)) |-> <<IF i % 2 = 1 THEN "enter" ELSE "exit", d[(i + 1) \div 2]>>]

\* The position of the step of d that fails on input x.
FailPos(d, x) ==
  CHOOSE k \in 1..Len(d) : ~Nest(SubSeq(d, 1, k), x).ok /\ Nest(SubSeq(d, 1, k - 1), x).ok

IsEnter(e) == e[1] = "enter"

\* The steps entered, in the order of their entries in a log.
Entered(tr) == [i \in 1..Len(SelectSeq(tr, IsEnter)) |-> SelectSeq(tr, IsEnter)[i][2]]

RECURSIVE Flatten(_)

\* The step closures inside a callable, in the order it was composed.
Flatten(c) == IF c.kind = "step" THEN <<c.id>> ELSE Flatten(c.self) \o Flatten(c.f)

RECURSIVE ChainOf(_)

\* The chained-call form pipe(d[1]).pipe(d[2])....pipe(d[n]).
ChainOf(d) ==
  IF Len(d) = 1
    THEN pipe(Step(d[1]), <<>>).ret
    ELSE Pipe_pipe(ChainOf(Front(d)), Step(Last(d)), <<>>).ret

RECURSIVE Concat(_)

Concat(rs) == IF rs = <<>> THEN <<>> ELSE Concat(Front(rs)) \o Last(rs).trace

RunsOf(p) == Cardinality({i \in DOMAIN runs : runs[i].pipe = p})

\* Expressions separated by `=>`, with no `=>` before, after or doubled.
IsList(toks) ==
  /\ Len(toks) % 2 = 1
  /\ \A i \in 1..Len(toks) : IF i % 2 = 1 THEN IsExpr(toks[i]) ELSE toks[i] = Arrow

----------------------------------------------------------------------------
\* C1: a pipeline built by pipe(f1).pipe(f2)....pipe(fn), called with an input
\* on which no step fails, returns fn(...f2(f1(x))).
C1_NestedResult ==
  \A i \in DOMAIN runs :
    LET P == pipes[runs[i].pipe]
    IN  (P.form = "chain" /\ Nest(P.decl, runs[i].input).ok)
          => runs[i].res = Nest(P.decl, runs[i].input)

C1_Witness ==
  \E i \in DOMAIN runs :
    /\ pipes[runs[i].pipe].form = "chain"
    /\ pipes[runs[i].pipe].decl = <<"half", "div", "half">>
    /\ runs[i].input = 2
    /\ runs[i].res = Ok(6)

\* C2: in a call in which no step fails, the steps run in the declared order,
\* each exactly once, each entered only after the one before it has returned.
C2_StepOrder ==
  \A i \in DOMAIN runs :
    LET P == pipes[runs[i].pipe]
    IN  Nest(P.decl, runs[i].input).ok => runs[i].trace = Events(P.decl)

C2_Witness ==
  \E i \in DOMAIN runs :
    /\ pipes[runs[i].pipe].decl = <<"div", "half", "half">>
    /\ runs[i].res.ok
    /\ Len(runs[i].trace) = 6

\* C3: a pipeline written as a pipe! block and one written as chained calls with
\* the same steps give, on the same input, the same result and the same step log.
C3_FormsAgree ==
  \A i, j \in DOMAIN runs :
    LET P == pipes[runs[i].pipe]
        Q == pipes[runs[j].pipe]
    IN  (P.form = "chain" /\ Q.form = "macro" /\ P.decl = Q.decl
           /\ runs[i].input = runs[j].input)
          => (runs[i].res = runs[j].res /\ runs[i].trace = runs[j].trace)

C3_Witness ==
  \E i, j \in DOMAIN runs :
    /\ pipes[runs[i].pipe].form = "chain"
    /\ pipes[runs[j].pipe].form = "macro"
    /\ pipes[runs[i].pipe].decl = <<"half", "div">>
    /\ pipes[runs[j].pipe].decl = <<"half", "div">>
    /\ runs[i].input = 2
    /\ runs[j].input = 2

\* C4: when step k fails, the steps before it have each run once, no step after
\* it is entered, and the caller gets the panic of step k itself.
C4_FailureStops ==
  \A i \in DOMAIN runs :
    LET d == pipes[runs[i].pipe].decl
        x == runs[i].input
    IN  ~Nest(d, x).ok =>
          LET k == FailPos(d, x)
          IN  /\ runs[i].res = Fail(PanicMsg(d[k]))
              /\ runs[i].res = Nest(d, x)
              /\ runs[i].trace = Append(Events(SubSeq(d, 1, k - 1)), <<"enter", d[k]>>)

C4_Witness ==
  \E i \in DOMAIN runs :
    /\ pipes[runs[i].pipe].decl = <<"half", "div", "half">>
    /\ runs[i].input = 0
    /\ ~runs[i].res.ok
    /\ runs[i].trace = <<<<"enter", "half">>, <<"exit", "half">>, <<"enter", "div">>>>

\* C5: the pipeline pipe(f) is f: called with x it gives what f gives on x, and
\* f runs exactly once.
C5_SingleStep ==
  \A i \in DOMAIN runs :
    LET P == pipes[runs[i].pipe]
        direct == RunStep(P.decl[1], [res |-> Ok(runs[i].input), log |-> <<>>])
    IN  (P.form = "chain" /\ Len(P.decl) = 1)
          => (P.fn = Step(P.decl[1]) /\ runs[i].res = direct.res
                /\ runs[i].trace = direct.log)

C5_Witness ==
  \E i \in DOMAIN runs :
    /\ pipes[runs[i].pipe].form = "chain"
    /\ pipes[runs[i].pipe].decl = <<"div">>
    /\ runs[i].res = Ok(6)

\* C6: the step log holds what the calls of pipelines put there and nothing
\* else: building a pipeline runs no step.
C6_NoStepAtConstruction == log = Concat(runs)

C6_Witness ==
  /\ runs = <<>>
  /\ log = <<>>
  /\ \E p, q \in DOMAIN pipes :
       /\ pipes[p].form = "macro"
       /\ pipes[q].form = "chain"
       /\ Len(pipes[p].decl) = 2
       /\ Len(pipes[q].decl) = 2

\* C7 as stated: a pipeline that has been called can be called again.
C7_Original == \A i \in DOMAIN runs : pipes[runs[i].pipe].live

\* C7, amended: a pipeline value is called at most once, the call consuming it,
\* and the call returns what the nested steps give on its input whatever calls
\* were made before it.
C7_CalledOnce ==
  /\ \A p \in DOMAIN pipes : RunsOf(p) <= 1 /\ (RunsOf(p) = 1 => ~pipes[p].live)
  /\ \A i \in DOMAIN runs : runs[i].res = Nest(pipes[runs[i].pipe].decl, runs[i].input)

C7_Witness ==
  /\ Len(runs) = 2
  /\ runs[1].pipe # runs[2].pipe
  /\ pipes[runs[1].pipe].decl = <<"div", "half">>
  /\ pipes[runs[2].pipe].decl = <<"div", "half">>
  /\ runs[1].input = 2
  /\ runs[2].input = 2
  /\ runs[2].res = Ok(3)

\* C8 as stated: after p.pipe(g) the pipeline p is still there to be called.
C8_Original ==
  \A q \in DOMAIN pipes : pipes[q].parent # 0 => pipes[pipes[q].parent].live

\* C8, amended: p.pipe(g) returns a new pipeline that holds p as it was, followed
\* by g, and changes no pipeline's steps; p itself is moved into the new
\* pipeline and is never usable again.
C8_ExtendMoves ==
  [][/\ \A p \in DOMAIN pipes :
          /\ pipes'[p].fn = pipes[p].fn
          /\ pipes'[p].decl = pipes[p].decl
          /\ ~pipes[p].live => ~pipes'[p].live
     /\ (Len(pipes') > Len(pipes) /\ pipes'[Len(pipes')].parent # 0) =>
          LET q == pipes'[Len(pipes')]
          IN  /\ q.fn.self = pipes[q.parent].fn
              /\ Flatten(q.fn) = Flatten(pipes[q.parent].fn) \o Flatten(q.fn.f)
              /\ pipes[q.parent].live
              /\ ~pipes'[q.parent].live
              /\ RunsOf(q.parent) = 0]_vars

C8_Witness ==
  \E q \in DOMAIN pipes :
    /\ pipes[q].parent # 0
    /\ pipes[q].decl = <<"half", "div">>
    /\ pipes[pipes[q].parent].decl = <<"half">>
    /\ ~pipes[pipes[q].parent].live
    /\ pipes[q].live

\* C9 as stated: every list of one or more expressions separated by `=>` is
\* accepted and gives a pipeline of those expressions in order.
C9_Original ==
  (last.status # "none" /\ IsList(last.toks))
    => (last.status = "ok" /\ Flatten(pipes[last.p].fn) = Exprs(last.toks))

\* C9, amended: a pipe! block is accepted exactly when it lists two or more
\* expressions separated by `=>`; a single expression, with or without a `=>`
\* after it, is rejected.  An accepted block gives the chained-call pipeline of
\* its expressions in the order listed, so each expression's binding is the
\* value of the one before it.
C9_MacroAccepts ==
  /\ last.status # "none" =>
       /\ last.status = "ok" <=> (IsList(last.toks) /\ Len(Exprs(last.toks)) >= 2)
       /\ last.status = "ok" =>
            /\ last.p = Len(pipes)
            /\ pipes[last.p].fn = ChainOf(Exprs(last.toks))
            /\ Flatten(pipes[last.p].fn) = Exprs(last.toks)
  /\ \A i \in DOMAIN runs :
       pipes[runs[i].pipe].form = "macro"
         => runs[i].res = Nest(pipes[runs[i].pipe].decl, runs[i].input)

C9_Witness ==
  /\ last.status = "ok"
  /\ last.toks = <<"half", Arrow, "div", Arrow, "half">>
  /\ Flatten(pipes[last.p].fn) = <<"half", "div", "half">>

\* C10: a pipeline passed as the step of another runs as if its steps had been
\* chained one at a time: same result, same step log, the steps entered in the
\* order written, each once.
C10_Grouping ==
  \A i \in DOMAIN runs :
    LET P == pipes[runs[i].pipe]
        flat == Call(ChainOf(P.decl), [res |-> Ok(runs[i].input), log |-> <<>>])
    IN  P.form = "nested" =>
          /\ runs[i].res = flat.res
          /\ runs[i].trace = flat.log
          /\ runs[i].res.ok => Entered(runs[i].trace) = P.decl

C10_Witness ==
  \E i \in DOMAIN runs :
    LET P == pipes[runs[i].pipe]
    IN  /\ P.form = "nested"
        /\ P.fn = Closure(Step("half"), Closure(Step("div"), Step("half")))
        /\ runs[i].input = 2
        /\ runs[i].res = Ok(6)

====
